---- MODULE Spec2Model ----
(***************************************************************************)
(* WxBackend (src/src/lib.rs): the plotters DrawingBackend that forwards   *)
(* drawing primitives to a wxdragon DeviceContext.                         *)
(*                                                                         *)
(* The state is the device context the backend borrows (background, pen,   *)
(* brush, font, text colours, surface), the native calls the most recent   *)
(* backend method issued on it, that method's inputs and its result.       *)
(* One action per backend method; each applies the whole method body.      *)
(***************************************************************************)
EXTENDS Integers, Sequences, FiniteSets, TLC

VARIABLES
    dc,       \* the wxdragon DeviceContext behind `context`
    calls,    \* native calls issued by the most recent backend method, in order
    op,       \* the most recent backend method and its inputs
    result,   \* what that method returned (Ok, Err) or that it panicked
    phase,    \* "fresh": no backend yet; "live": WxBackend::new returned; "panicked"
    build     \* "debug" (overflow checks on) or "release" (two's complement wrap)

vars == <<dc, calls, op, result, phase, build>>

----------------------------------------------------------------------------
(* Bounds of the model *)

\* Largest text extent (width or height) the native text-extent query reports.
MaxExtent == 3

\* Largest font size (style.size(), a whole number of pixels) a text style has.
MaxSize == 20

----------------------------------------------------------------------------
(* i32 arithmetic, as rustc compiles it *)

I32Max == 2147483647
I32Min == -I32Max - 1

AddOverflows(a, b) ==
    \/ b > 0 /\ a > I32Max - b
    \/ b < 0 /\ a < I32Min - b

\* a + b reduced modulo 2^32 into the i32 range (release build)
WrappingAdd(a, b) ==
    IF b > 0 /\ a > I32Max - b THEN (a - I32Max - 1) + (b - I32Max - 1)
    ELSE IF b < 0 /\ a < I32Min - b THEN (a + I32Max + 1) + (b + I32Max + 1)
    ELSE a + b

SubOverflows(a, b) ==
    \/ b < 0 /\ a > I32Max + b
    \/ b > 0 /\ a < I32Min + b

\* a - b reduced modulo 2^32 into the i32 range (release build)
WrappingSub(a, b) ==
    IF b < 0 /\ a > I32Max + b THEN (a - I32Max - 1) - (b + I32Max + 1)
    ELSE IF b > 0 /\ a < I32Min + b THEN (a + I32Max + 1) - (b - I32Max - 1)
    ELSE a - b

\* Rust's integer `/`: the quotient truncated toward zero (b > 0)
TruncDiv(a, b) == IF a >= 0 THEN a \div b ELSE -((-a) \div b)

\* a u32: the value 2^31 * hi + lo, with hi in {0, 1} and lo in 0 .. 2^31 - 1
U32(hi, lo) == [hi |-> hi, lo |-> lo]

\* `u as i32` for a u32 u: the same 32 bits read as two's complement
U32AsI32(u) == IF u.hi = 0 THEN u.lo ELSE I32Min + u.lo

\* `n as u32` for an i32 n: the same 32 bits read as unsigned
I32AsU32(n) == IF n >= 0 THEN U32(0, n) ELSE U32(1, n - I32Min)

----------------------------------------------------------------------------
(* Results *)

\* Ok(value); Ok(()) carries the empty tuple
OkVal(value) == [tag |-> "Ok", kind |-> "none", inner |-> "none", value |-> value]
Ok == OkVal(<<>>)
\* a plain return value (the method's type is not a Result)
Val(value) == [tag |-> "Value", kind |-> "none", inner |-> "none", value |-> value]
\* Err(kind(Box::new(Error(inner))))
Err(kind, inner) == [tag |-> "Err", kind |-> kind, inner |-> inner, value |-> <<>>]
\* the method did not return: an arithmetic overflow panicked (debug build)
Panic == [tag |-> "Panic", kind |-> "none", inner |-> "overflow", value |-> <<>>]

----------------------------------------------------------------------------
(* Colours *)

\* Denominator of the alpha fractions: alpha = a / AlphaDen, exact in f64.
AlphaDen == 16

\* plotters_backend::BackendColor
BackendColor(r, g, b, a) == [rgb |-> <<r, g, b>>, alpha |-> a]

\* wx::Colour::new(r, g, b, a)
Colour(r, g, b, a) == <<r, g, b, a>>

\* wx::Colour::rgb(255, 255, 255)
White == Colour(255, 255, 255, 255)

BLACK == BackendColor(0, 0, 0, AlphaDen)
RED_HALF == BackendColor(255, 0, 0, AlphaDen \div 2)

\* `(alpha * 255.0) as u8`: the float-to-integer cast truncates
AlphaChannelCast(a) == (a * 255) \div AlphaDen

convert_color(color) ==
    Colour(color.rgb[1], color.rgb[2], color.rgb[3], AlphaChannelCast(color.alpha))

----------------------------------------------------------------------------
(* The native device context: each call changes the context and is logged *)

Call(s, c, newdc) == [dc |-> newdc, calls |-> Append(s.calls, c)]

ctx_clear(s) ==
    Call(s, <<"clear">>,
         [s.dc EXCEPT !.surface = [cleared |-> TRUE, fill |-> s.dc.bg]])

ctx_get_background(s) ==
    Call(s, <<"get_background">>, s.dc)

ctx_set_background(s, colour) ==
    Call(s, <<"set_background", colour>>, [s.dc EXCEPT !.bg = colour])

ctx_set_background_mode(s, mode) ==
    Call(s, <<"set_background_mode", mode>>, [s.dc EXCEPT !.bgMode = mode])

ctx_set_pen(s, colour, width, style) ==
    Call(s, <<"set_pen", colour, width, style>>,
         [s.dc EXCEPT !.pen = [colour |-> colour, width |-> width, style |-> style]])

ctx_set_brush(s, colour, style) ==
    Call(s, <<"set_brush", colour, style>>,
         [s.dc EXCEPT !.brush = [colour |-> colour, style |-> style]])

ctx_set_text_background(s, colour) ==
    Call(s, <<"set_text_background", colour>>, [s.dc EXCEPT !.textBg = colour])

ctx_set_text_foreground(s, colour) ==
    Call(s, <<"set_text_foreground", colour>>, [s.dc EXCEPT !.textFg = colour])

ctx_set_font(s, font) ==
    Call(s, <<"set_font", font>>, [s.dc EXCEPT !.font = font])

\* A draw leaves content on the surface.
Drawn(d) == [d EXCEPT !.surface = [cleared |-> FALSE, fill |-> <<>>]]

ctx_draw_point(s, x, y) ==
    Call(s, <<"draw_point", x, y>>, Drawn(s.dc))

ctx_draw_line(s, x1, y1, x2, y2) ==
    Call(s, <<"draw_line", x1, y1, x2, y2>>, Drawn(s.dc))

ctx_draw_lines(s, points, xo, yo) ==
    Call(s, <<"draw_lines", points, xo, yo>>, Drawn(s.dc))

ctx_draw_circle(s, x, y, r) ==
    Call(s, <<"draw_circle", x, y, r>>, Drawn(s.dc))

ctx_draw_rectangle(s, x, y, w, h) ==
    Call(s, <<"draw_rectangle", x, y, w, h>>, Drawn(s.dc))

ctx_draw_polygon(s, points, xo, yo, fill_mode) ==
    Call(s, <<"draw_polygon", points, xo, yo, fill_mode>>, Drawn(s.dc))

ctx_draw_text(s, text, x, y) ==
    Call(s, <<"draw_text", text, x, y>>, Drawn(s.dc))

ctx_draw_rotated_text(s, text, x, y, angle) ==
    Call(s, <<"draw_rotated_text", text, x, y, angle>>, Drawn(s.dc))

\* the query returns `extent`, measured with the context's current font
ctx_get_text_extent(s, text, extent) ==
    Call(s, <<"get_text_extent", text, extent, s.dc.font>>, s.dc)

\* the query returns the surface's size at the moment of the call
ctx_get_size(s) ==
    Call(s, <<"get_size", s.dc.size>>, s.dc)

ctx_draw_bitmap(s, bitmap, x, y, transparent) ==
    Call(s, <<"draw_bitmap", bitmap, x, y, transparent>>, Drawn(s.dc))

\* A method's outcome: the context and log it leaves, and what it returns.
Ret(s, r) == [dc |-> s.dc, calls |-> s.calls, result |-> r]

\* The context at a method's entry, with an empty log.
Enter(d) == [dc |-> d, calls |-> <<>>]

----------------------------------------------------------------------------
(* WxBackend's inherent methods *)

clear(s) == ctx_clear(s)

set_background_color(s, colour) == ctx_set_background(s, colour)

set_background_mode(s, mode) == ctx_set_background_mode(s, mode)

\* the surface cleared before the background colour is set
new_clear_first(s) ==
    set_background_mode(set_background_color(clear(s), White), "Transparent")

new(s) ==
    clear(set_background_mode(set_background_color(s, White), "Transparent"))

\* `style.stroke_width() as i32`: stroke_width() is a u32
set_pen_style(s, style) ==
    ctx_set_pen(s, convert_color(style.color), U32AsI32(style.stroke_width), "Solid")

\* a solid brush whatever `fill` is
set_brush_style_solid(s, fill, color) ==
    ctx_set_brush(s, convert_color(color), "Solid")

set_brush_style(s, fill, color) ==
    ctx_set_brush(s, convert_color(color), IF fill THEN "Solid" ELSE "Transparent")

\* the product rounded to the nearest integer instead
PointSizeRound(size) == (2 * size * 6 + 10) \div 20

\* `(style.size() * 0.6) as i32`: the float-to-integer cast truncates
PointSizeCast(size) == (size * 6) \div 10

\* the (family, face_name) match on style.family()
FamilyAndFace(family) ==
    CASE family.kind = "Monospace" -> <<"Teletype", "None">>
      [] family.kind = "SansSerif" -> <<"Swiss", "None">>
      [] family.kind = "Serif" -> <<"Roman", "None">>
      [] family.kind = "Name" -> <<"Default", family.name>>

\* the (style, weight) match on style.style()
StyleAndWeight(fstyle) ==
    CASE fstyle = "Bold" -> <<"Normal", "Bold">>
      [] fstyle = "Italic" -> <<"Italic", "Normal">>
      [] fstyle = "Normal" -> <<"Normal", "Normal">>
      [] fstyle = "Oblique" -> <<"Slant", "Normal">>

\* what wx::Font::builder() is given
FontParams(style) ==
    [point_size |-> PointSizeCast(style.size),
     family     |-> FamilyAndFace(style.family)[1],
     style      |-> StyleAndWeight(style.style)[1],
     weight     |-> StyleAndWeight(style.style)[2],
     underlined |-> FALSE,
     face_name  |-> FamilyAndFace(style.family)[2]]

\* wx::Font::builder()...build(): `built` is whether the toolkit returned a font
font_build(s, params, built) ==
    [dc |-> s.dc, calls |-> Append(s.calls, <<"font_build", params, built>>)]

\* the text background fixed at white
set_font_style_white_bg(s, style, built) ==
    LET s1 == ctx_set_text_background(ctx_get_background(s), White)
        s2 == ctx_set_text_foreground(s1, convert_color(style.color))
        s3 == font_build(s2, FontParams(style), built)
    IN  IF built
        THEN Ret(ctx_set_font(s3, FontParams(style)), Ok)
        ELSE Ret(s3, Err("ErrorInner", "CreateFont"))

\* a failed build tried a second time, the context's font replaced meanwhile
set_font_style_retry(s, style, built) ==
    LET s1 == ctx_set_text_background(ctx_get_background(s), s.dc.bg)
        s2 == ctx_set_text_foreground(s1, convert_color(style.color))
        s3 == font_build(s2, FontParams(style), built)
    IN  IF built
        THEN Ret(ctx_set_font(s3, FontParams(style)), Ok)
        ELSE Ret(font_build(ctx_set_font(s3, FontParams(style)), FontParams(style), built),
                 Err("ErrorInner", "CreateFont"))

\* Result<(), ErrorInner>
set_font_style(s, style, built) ==
    LET s1 == ctx_set_text_background(ctx_get_background(s), s.dc.bg)
        s2 == ctx_set_text_foreground(s1, convert_color(style.color))
        s3 == font_build(s2, FontParams(style), built)
    IN  IF built
        THEN Ret(ctx_set_font(s3, FontParams(style)), Ok)
        ELSE Ret(s3, Err("ErrorInner", "CreateFont"))

----------------------------------------------------------------------------
(* impl DrawingBackend for WxBackend *)

\* the size the surface had at construction, answered without a query
get_size_remembered(s) == Ret(s, Val(<<I32AsU32(800), I32AsU32(600)>>))

\* `(width as u32, height as u32)` of the i32 pair the context reports
get_size(s) ==
    LET s1 == ctx_get_size(s)
    IN  Ret(s1, Val(<<I32AsU32(s.dc.size[1]), I32AsU32(s.dc.size[2])>>))

ensure_prepared(s) == Ret(s, Ok)

\* a present that touches the surface
present_clearing(s) == Ret(ctx_clear(s), Ok)

present(s) == Ret(s, Ok)

draw_pixel(s, point, color) ==
    LET s1 == ctx_set_pen(s, convert_color(color), 1, "Solid")
    IN  Ret(ctx_draw_point(s1, point[1], point[2]), Ok)

\* the line drawn with whatever pen the context holds
draw_line_stale_pen(s, from, to, style) ==
    Ret(ctx_draw_line(s, from[1], from[2], to[1], to[2]), Ok)

draw_line(s, from, to, style) ==
    LET s1 == set_pen_style(s, style)
    IN  Ret(ctx_draw_line(s1, from[1], from[2], to[1], to[2]), Ok)

\* an empty path refused with an error
draw_path_rejects_empty(s, path, style) ==
    LET s1 == set_pen_style(s, style)
    IN  IF path = <<>>
        THEN Ret(s1, Err("DrawingError", "EmptyPath"))
        ELSE Ret(ctx_draw_lines(s1, path, 0, 0), Ok)

draw_path(s, path, style) ==
    LET s1 == set_pen_style(s, style)
    IN  Ret(ctx_draw_lines(s1, path, 0, 0), Ok)

draw_circle(s, center, radius, style, fill) ==
    LET s1 == set_pen_style(s, style)
        s2 == set_brush_style(s1, fill, style.color)
    IN  Ret(ctx_draw_circle(s2, center[1], center[2], radius), Ok)

\* the bottom-right corner forwarded as the width and height
draw_rect_corners(s, upper_left, bottom_right, style, fill, bld) ==
    LET s1 == set_pen_style(s, style)
        s2 == set_brush_style(s1, fill, style.color)
    IN  Ret(ctx_draw_rectangle(s2, upper_left[1], upper_left[2],
                               bottom_right[1], bottom_right[2]), Ok)

\* `x2 - x1` and `y2 - y1` are i32 subtractions: an overflow panics in a debug
\* build and wraps in a release build
draw_rect(s, upper_left, bottom_right, style, fill, bld) ==
    LET s1 == set_pen_style(s, style)
        s2 == set_brush_style(s1, fill, style.color)
        x1 == upper_left[1]
        y1 == upper_left[2]
        x2 == bottom_right[1]
        y2 == bottom_right[2]
        width == WrappingSub(x2, x1)
        height == WrappingSub(y2, y1)
    IN  IF bld = "debug" /\ (SubOverflows(x2, x1) \/ SubOverflows(y2, y1))
        THEN Ret(s2, Panic)
        ELSE Ret(ctx_draw_rectangle(s2, x1, y1, width, height), Ok)

fill_polygon(s, vert, style) ==
    LET s1 == set_pen_style(s, style)
        s2 == set_brush_style(s1, TRUE, style.color)
    IN  Ret(ctx_draw_polygon(s2, vert, 0, 0, "OddEven"), Ok)

\* the font error dropped instead of returned
estimate_text_size_unchecked(s, text, style, built, extent) ==
    LET r == set_font_style(s, style, built)
    IN  Ret(ctx_get_text_extent(r, text, extent), OkVal(extent))

\* the extent queried before the font style is applied
estimate_text_size_measure_first(s, text, style, built, extent) ==
    LET r == set_font_style(ctx_get_text_extent(s, text, extent), style, built)
    IN  IF r.result.tag = "Err"
        THEN Ret(r, Err("FontError", r.result.inner))
        ELSE Ret(r, OkVal(extent))

\* `extent` is what get_text_extent returns; `built` whether the font was built
estimate_text_size(s, text, style, built, extent) ==
    LET r == set_font_style(s, style, built)
    IN  IF r.result.tag = "Err"
        THEN Ret(r, Err("FontError", r.result.inner))
        ELSE Ret(ctx_get_text_extent(r, text, extent), OkVal(extent))

\* the halved width rounded toward minus infinity
AlignDxFloor(h_pos, width) ==
    CASE h_pos = "Left" -> 0
      [] h_pos = "Center" -> (-width) \div 2
      [] h_pos = "Right" -> -width

\* the `dx` match on h_pos
AlignDx(h_pos, width) ==
    CASE h_pos = "Left" -> 0
      [] h_pos = "Center" -> TruncDiv(-width, 2)
      [] h_pos = "Right" -> -width

\* the `dy` match on v_pos
AlignDy(v_pos, height) ==
    CASE v_pos = "Top" -> 0
      [] v_pos = "Center" -> TruncDiv(-height, 2)
      [] v_pos = "Bottom" -> -height

\* the quarter turns exchanged
RotateOffsetSwapped(transform, dx, dy) ==
    CASE transform = "None" -> <<dx, dy>>
      [] transform = "Rotate90" -> <<dy, -dx>>
      [] transform = "Rotate180" -> <<-dx, -dy>>
      [] transform = "Rotate270" -> <<-dy, dx>>

\* the `(dx, dy)` match on style.transform()
RotateOffset(transform, dx, dy) ==
    CASE transform = "None" -> <<dx, dy>>
      [] transform = "Rotate90" -> <<-dy, dx>>
      [] transform = "Rotate180" -> <<-dx, -dy>>
      [] transform = "Rotate270" -> <<dy, -dx>>

\* Option<f64>
None == [some |-> FALSE, deg |-> 0]
Some(deg) == [some |-> TRUE, deg |-> deg]

\* the angles left clockwise
NativeAngleClockwise(transform) ==
    CASE transform = "None" -> None
      [] transform = "Rotate90" -> Some(90)
      [] transform = "Rotate180" -> Some(180)
      [] transform = "Rotate270" -> Some(270)

\* the `angle` match on style.transform(), in degrees
NativeAngle(transform) ==
    CASE transform = "None" -> None
      [] transform = "Rotate90" -> Some(-90)
      [] transform = "Rotate180" -> Some(-180)
      [] transform = "Rotate270" -> Some(-270)

\* `x + dx` and `y + dy` are i32 additions: an overflow panics in a debug build
\* and wraps in a release build
draw_text(s, text, style, pos, built, extent, bld) ==
    LET e == estimate_text_size(s, text, style, built, extent)
        width == e.result.value[1]
        height == e.result.value[2]
        x == pos[1]
        y == pos[2]
        dx == AlignDx(style.anchor.h_pos, width)
        dy == AlignDy(style.anchor.v_pos, height)
        d == RotateOffset(style.transform, dx, dy)
        angle == NativeAngle(style.transform)
        ox == WrappingAdd(x, d[1])
        oy == WrappingAdd(y, d[2])
    IN  IF e.result.tag = "Err" THEN e
        ELSE IF bld = "debug" /\ (AddOverflows(x, d[1]) \/ AddOverflows(y, d[2]))
        THEN Ret(e, Panic)
        ELSE IF angle.some
        THEN Ret(ctx_draw_rotated_text(e, text, ox, oy, angle.deg), Ok)
        ELSE Ret(ctx_draw_text(e, text, ox, oy), Ok)

\* wx::Bitmap::from_rgba(src, iw, ih): Some(bitmap) when the buffer holds
\* iw * ih RGBA pixels and the toolkit built the bitmap, None otherwise
from_rgba(len, iw, ih, built) == built /\ iw > 0 /\ ih > 0 /\ len = iw * ih * 4

bitmap_from_rgba(s, len, iw, ih, built) ==
    [dc |-> s.dc,
     calls |-> Append(s.calls, <<"bitmap_from_rgba", len, iw, ih, from_rgba(len, iw, ih, built)>>)]

\* the bitmap drawn before the buffer is checked
blit_bitmap_draw_first(s, pos, iw, ih, len, built) ==
    LET s1 == ctx_draw_bitmap(bitmap_from_rgba(s, len, iw, ih, built),
                              <<iw, ih>>, pos[1], pos[2], FALSE)
    IN  IF ~from_rgba(len, iw, ih, built)
        THEN Ret(s1, Err("FontError", "CreateBitmap"))
        ELSE Ret(s1, Ok)

\* `len` is the length of `src`
blit_bitmap(s, pos, iw, ih, len, built) ==
    LET s1 == bitmap_from_rgba(s, len, iw, ih, built)
    IN  IF ~from_rgba(len, iw, ih, built)
        THEN Ret(s1, Err("FontError", "CreateBitmap"))
        ELSE Ret(ctx_draw_bitmap(s1, <<iw, ih>>, pos[1], pos[2], FALSE), Ok)

----------------------------------------------------------------------------
(* Inputs the actions draw from *)

Grey == Colour(128, 128, 128, 255)

Colors == {BLACK, RED_HALF}

\* three rgb triples with every alpha fraction
AllColors ==
    {BackendColor(rgb[1], rgb[2], rgb[3], a) :
        rgb \in {<<0, 0, 0>>, <<255, 0, 0>>, <<12, 200, 255>>}, a \in 0 .. AlphaDen}

\* plotters_backend::BackendStyle: color() and stroke_width()
Styles ==
    {[color |-> BLACK, stroke_width |-> U32(0, 1)],
     [color |-> RED_HALF, stroke_width |-> U32(0, 2)]}

\* the same, and a stroke width of 2^31 + 3
WideStyles == Styles \cup {[color |-> BLACK, stroke_width |-> U32(1, 3)]}

Points == {<<0, 0>>, <<300, 250>>}

\* (upper_left, bottom_right) for draw_rect: ordinary, degenerate, reversed, and
\* ordered corners at the extremes of i32
Rects ==
    {<<<<300, 250>>, <<500, 350>>>>,
     <<<<0, 0>>, <<0, 0>>>>,
     <<<<500, 350>>, <<300, 250>>>>,
     <<<<I32Min, -1>>, <<I32Max, 0>>>>,
     <<<<-2, I32Min>>, <<-1, I32Max>>>>,
     <<<<I32Min, I32Min>>, <<-1, -1>>>>,
     <<<<0, 0>>, <<I32Max, I32Max>>>>,
     <<<<-1, 0>>, <<I32Max, 0>>>>}

SomeRects == {<<<<300, 250>>, <<500, 350>>>>, <<<<I32Min, -1>>, <<I32Max, 0>>>>}

Paths == {<<>>, <<<<0, 0>>, <<300, 250>>>>}

Anchors == [h_pos : {"Left", "Center", "Right"}, v_pos : {"Top", "Center", "Bottom"}]

Transforms == {"None", "Rotate90", "Rotate180", "Rotate270"}

\* the font part of a plotters_backend::BackendTextStyle
Fonts ==
    {[color |-> BLACK, size |-> 32, family |-> [kind |-> "Monospace", name |-> ""],
      style |-> "Normal"],
     [color |-> RED_HALF, size |-> 16, family |-> [kind |-> "Name", name |-> "Arial"],
      style |-> "Bold"]}

TextStyle(font, anchor, transform) ==
    [color |-> font.color, size |-> font.size, family |-> font.family,
     style |-> font.style, anchor |-> anchor, transform |-> transform]

\* a plotters_backend::BackendTextStyle: every font, anchor and rotation
TextStyles == {TextStyle(f, a, t) : f \in Fonts, a \in Anchors, t \in Transforms}

\* a few of them, for the runs that interleave text with the other methods
SomeTextStyles ==
    {ts \in TextStyles :
        \/ /\ ts.color = BLACK
           /\ ts.anchor.h_pos = "Center" /\ ts.anchor.v_pos = "Center"
           /\ ts.transform = "None"
        \/ /\ ts.color = RED_HALF
           /\ ts.anchor.h_pos = "Right" /\ ts.anchor.v_pos = "Bottom"
           /\ ts.transform = "Rotate90"}

\* one font with every anchor and every rotation
AnchoredTextStyles == {ts \in TextStyles : ts.color = BLACK}

\* one font at every size, centred and not rotated
SizedTextStyles ==
    {TextStyle([color |-> BLACK, size |-> n, family |-> [kind |-> "SansSerif", name |-> ""],
                style |-> "Italic"],
               [h_pos |-> "Center", v_pos |-> "Center"], "None") : n \in 0 .. MaxSize}

\* every family with every font style, centred and not rotated
FamilyTextStyles ==
    {TextStyle([color |-> RED_HALF, size |-> 20, family |-> fam, style |-> st],
               [h_pos |-> "Center", v_pos |-> "Center"], "None") :
        fam \in {[kind |-> "Monospace", name |-> ""], [kind |-> "SansSerif", name |-> ""],
                 [kind |-> "Serif", name |-> ""], [kind |-> "Name", name |-> "Arial"]},
        st \in {"Bold", "Italic", "Normal", "Oblique"}}

TextPoints == {<<400, 300>>, <<I32Max, I32Min>>}

SomeTextPoints == {<<400, 300>>, <<I32Max, I32Min>>}

\* what get_text_extent may report
Extents == {<<0, 0>>, <<MaxExtent, MaxExtent - 1>>, <<MaxExtent - 1, MaxExtent>>}

SomeExtents == {<<MaxExtent, MaxExtent - 1>>}

Texts == {"M"}

\* (width, height) the native surface may have
Sizes == {<<800, 600>>, <<1024, 768>>, <<0, 0>>}

\* (iw, ih, length of src) for blit_bitmap
Bitmaps == {<<2, 1, 8>>, <<2, 1, 4>>, <<0, 1, 0>>}

----------------------------------------------------------------------------
(* The state machine *)

DefaultFont ==
    [point_size |-> 0, family |-> "Default", style |-> "Normal", weight |-> "Normal",
     underlined |-> FALSE, face_name |-> ""]

\* a device context before any backend is built on it
Init ==
    /\ dc \in [bg : {White, Grey},
               bgMode : {"Solid", "Transparent"},
               pen : {[colour |-> Colour(0, 0, 0, 255), width |-> 1, style |-> "Solid"]},
               brush : {[colour |-> White, style |-> "Solid"]},
               font : {DefaultFont},
               textFg : {Colour(0, 0, 0, 255)},
               textBg : {White},
               size : {<<800, 600>>},
               surface : {[cleared |-> FALSE, fill |-> <<>>]}]
    /\ calls = <<>>
    /\ op = [name |-> "none", args |-> <<>>]
    /\ result = Ok
    /\ phase = "fresh"
    /\ build \in {"debug", "release"}

\* a backend method ran with outcome r
Do(name, args, r) ==
    /\ dc' = r.dc
    /\ calls' = r.calls
    /\ result' = r.result
    /\ op' = [name |-> name, args |-> args]
    /\ phase' = IF r.result.tag = "Panic" THEN "panicked" ELSE "live"
    /\ UNCHANGED build

\* WxBackend::new on the context, first or again (each repaint builds a backend)
New ==
    /\ phase \in {"fresh", "live"}
    /\ Do("new", <<>>, Ret(new(Enter(dc)), Ok))

Clear ==
    /\ phase = "live"
    /\ Do("clear", <<>>, Ret(clear(Enter(dc)), Ok))

SetBackgroundColor ==
    /\ phase = "live"
    /\ \E colour \in {White, Grey} :
          Do("set_background_color", <<colour>>,
             Ret(set_background_color(Enter(dc), colour), Ok))

SetBackgroundMode ==
    /\ phase = "live"
    /\ \E mode \in {"Solid", "Transparent"} :
          Do("set_background_mode", <<mode>>,
             Ret(set_background_mode(Enter(dc), mode), Ok))

\* the window system resizes the surface the context draws on
Resize ==
    /\ phase = "live"
    /\ \E size \in Sizes :
          Do("resize", <<size>>, Ret(Enter([dc EXCEPT !.size = size]), Ok))

GetSize ==
    /\ phase = "live"
    /\ Do("get_size", <<>>, get_size(Enter(dc)))

EnsurePrepared ==
    /\ phase = "live"
    /\ Do("ensure_prepared", <<>>, ensure_prepared(Enter(dc)))

Present ==
    /\ phase = "live"
    /\ Do("present", <<>>, present(Enter(dc)))

DrawPixel(colors) ==
    /\ phase = "live"
    /\ \E point \in {<<300, 250>>}, color \in colors :
          Do("draw_pixel", <<point, color>>, draw_pixel(Enter(dc), point, color))

DrawLine(styles) ==
    /\ phase = "live"
    /\ \E from \in {<<0, 0>>}, to \in Points, style \in styles :
          Do("draw_line", <<from, to, style>>, draw_line(Enter(dc), from, to, style))

DrawPath(styles) ==
    /\ phase = "live"
    /\ \E path \in Paths, style \in styles :
          Do("draw_path", <<path, style>>, draw_path(Enter(dc), path, style))

DrawCircle(styles) ==
    /\ phase = "live"
    /\ \E center \in {<<300, 250>>}, radius \in {5}, style \in styles, fill \in BOOLEAN :
          Do("draw_circle", <<center, radius, style, fill>>,
             draw_circle(Enter(dc), center, radius, style, fill))

DrawRect(rects, styles) ==
    /\ phase = "live"
    /\ \E r \in rects, style \in styles, fill \in BOOLEAN :
          Do("draw_rect", <<r[1], r[2], style, fill>>,
             draw_rect(Enter(dc), r[1], r[2], style, fill, build))

FillPolygon(styles) ==
    /\ phase = "live"
    /\ \E vert \in Paths, style \in styles :
          Do("fill_polygon", <<vert, style>>, fill_polygon(Enter(dc), vert, style))

DrawText(texts, styles, points, extents) ==
    /\ phase = "live"
    /\ \E text \in texts, style \in styles, pos \in points,
          built \in BOOLEAN, extent \in extents :
          Do("draw_text", <<text, style, pos>>,
             draw_text(Enter(dc), text, style, pos, built, extent, build))

EstimateTextSize(texts, styles, extents) ==
    /\ phase = "live"
    /\ \E text \in texts, style \in styles, built \in BOOLEAN, extent \in extents :
          Do("estimate_text_size", <<text, style>>,
             estimate_text_size(Enter(dc), text, style, built, extent))

BlitBitmap ==
    /\ phase = "live"
    /\ \E pos \in {<<300, 250>>}, b \in Bitmaps, built \in BOOLEAN :
          Do("blit_bitmap", <<pos, <<b[1], b[2]>>, b[3]>>,
             blit_bitmap(Enter(dc), pos, b[1], b[2], b[3], built))

Next ==
    \/ New
    \/ Clear
    \/ SetBackgroundColor
    \/ SetBackgroundMode
    \/ EnsurePrepared
    \/ Present
    \/ DrawPixel(Colors)
    \/ DrawLine(Styles)
    \/ DrawPath(Styles)
    \/ DrawCircle(Styles)
    \/ DrawRect(SomeRects, Styles)
    \/ FillPolygon(Styles)
    \/ DrawText(Texts, SomeTextStyles, SomeTextPoints, SomeExtents)
    \/ EstimateTextSize(Texts, SomeTextStyles, SomeExtents)
    \/ BlitBitmap

\* every backend method, interleaved in any order, on any prior context
Spec == Init /\ [][Next]_vars

NextText ==
    \/ New
    \/ DrawText(Texts, AnchoredTextStyles, TextPoints, Extents)
    \/ EstimateTextSize(Texts, SomeTextStyles, Extents)

\* the text methods alone, over every anchor, rotation, extent and target point
SpecText == Init /\ [][NextText]_vars

NextShapes ==
    \/ New
    \/ DrawLine(Styles)
    \/ DrawPath(Styles)
    \/ DrawCircle(Styles)
    \/ DrawRect(Rects, Styles)
    \/ FillPolygon(Styles)

\* the styled primitives, draw_rect over all the corner pairs
SpecShapes == Init /\ [][NextShapes]_vars

NextColours ==
    \/ New
    \/ DrawPixel(AllColors)

\* the colour conversion, over every alpha fraction
SpecColours == Init /\ [][NextColours]_vars

NextSizes ==
    \/ New
    \/ EstimateTextSize(Texts, SizedTextStyles, SomeExtents)

\* the font translation, over every font size
SpecSizes == Init /\ [][NextSizes]_vars

NextStyles ==
    \/ New
    \/ DrawPixel(Colors)
    \/ DrawLine(WideStyles)
    \/ DrawPath(WideStyles)
    \/ DrawCircle(WideStyles)
    \/ DrawRect(SomeRects, WideStyles)
    \/ FillPolygon(WideStyles)
    \/ DrawText(Texts, SomeTextStyles, {<<400, 300>>}, SomeExtents)

\* the draw calls with differing styles, one after another in any order
SpecStyles == Init /\ [][NextStyles]_vars

NextFonts ==
    \/ New
    \/ SetBackgroundColor
    \/ EstimateTextSize(Texts, FamilyTextStyles, SomeExtents)

\* the font translation, over every family and font style
SpecFonts == Init /\ [][NextFonts]_vars

NextSurface ==
    \/ New
    \/ Clear
    \/ SetBackgroundColor
    \/ SetBackgroundMode
    \/ Resize
    \/ GetSize
    \/ DrawPixel(Colors)

\* the surface queried while the window system resizes it
SpecSurface == Init /\ [][NextSurface]_vars

----------------------------------------------------------------------------
(* Reading the log of the most recent method *)

CallsNamed(names) == SelectSeq(calls, LAMBDA c : c[1] \in names)

TextDraws == CallsNamed({"draw_text", "draw_rotated_text"})

\* a + b = c over the integers, for i32 a, b, c
SumIs(a, b, c) == ~AddOverflows(a, b) /\ c = a + b

\* a - b = c over the integers, for i32 a, b, c
DiffIs(a, b, c) == ~SubOverflows(a, b) /\ c = a - b

SuccessfulDrawText == op.name = "draw_text" /\ result.tag = "Ok"

\* of the successful draw_text: its inputs, the extent measured, the origin drawn at
TextStyleDrawn == op.args[2]
TargetPoint == op.args[3]
ExtentMeasured == CallsNamed({"get_text_extent"})[1][3]
OriginDrawn == <<TextDraws[1][3], TextDraws[1][4]>>

----------------------------------------------------------------------------
(* C1: text anchoring under the native placement rule *)

\* twice the anchor's offset inside the un-rotated box of extent e
Anchor2(anchor, e) ==
    <<CASE anchor.h_pos = "Left" -> 0
        [] anchor.h_pos = "Center" -> e[1]
        [] anchor.h_pos = "Right" -> 2 * e[1],
      CASE anchor.v_pos = "Top" -> 0
        [] anchor.v_pos = "Center" -> e[2]
        [] anchor.v_pos = "Bottom" -> 2 * e[2]>>

\* a vector turned clockwise about the origin, y axis pointing down
Clockwise(transform, v) ==
    CASE transform = "None" -> v
      [] transform = "Rotate90" -> <<-v[2], v[1]>>
      [] transform = "Rotate180" -> <<-v[1], -v[2]>>
      [] transform = "Rotate270" -> <<v[2], -v[1]>>

\* the displacements k of the origin from the target for which the anchor,
\* at twice-offset a2 from the origin, lies within half a pixel of the target
Landing(a2) == {k \in -(MaxExtent + 1) .. (MaxExtent + 1) : 2 * k + a2 \in {-1, 0, 1}}

\* the rotated box's anchor falls on the target point
AnchorLands ==
    LET a == Clockwise(TextStyleDrawn.transform,
                       Anchor2(TextStyleDrawn.anchor, ExtentMeasured))
    IN  /\ \E k \in Landing(a[1]) : SumIs(TargetPoint[1], k, OriginDrawn[1])
        /\ \E k \in Landing(a[2]) : SumIs(TargetPoint[2], k, OriginDrawn[2])

\* some origin that puts the anchor on the target is a pair of i32 coordinates
OriginRepresentable ==
    LET a == Clockwise(TextStyleDrawn.transform,
                       Anchor2(TextStyleDrawn.anchor, ExtentMeasured))
    IN  /\ \E k \in Landing(a[1]) : ~AddOverflows(TargetPoint[1], k)
        /\ \E k \in Landing(a[2]) : ~AddOverflows(TargetPoint[2], k)

\* C1 as stated: for every rotation, anchor, measured box and target point, the
\* box placed with its top-left corner at the origin draw_text passes and turned
\* clockwise about it has its anchor on the target point, up to the rounding of
\* the halved extent.
C1_AnchorLandsEverywhere == SuccessfulDrawText => AnchorLands

\* C1 as amended: the same, for every target point for which such an origin is
\* representable in i32 coordinates.
C1_AnchorLands == SuccessfulDrawText /\ OriginRepresentable => AnchorLands

C1_Witness ==
    /\ SuccessfulDrawText
    /\ OriginRepresentable
    /\ TextStyleDrawn.transform = "Rotate270"
    /\ TextStyleDrawn.anchor = [h_pos |-> "Center", v_pos |-> "Bottom"]
    /\ ExtentMeasured = <<MaxExtent, MaxExtent - 1>>
    /\ TargetPoint = <<400, 300>>

----------------------------------------------------------------------------
(* C2: the origin draw_text passes to the native text draw *)

ClaimedDx(h_pos, w) ==
    CASE h_pos = "Left" -> 0
      [] h_pos = "Center" -> -(w \div 2)
      [] h_pos = "Right" -> -w

ClaimedDy(v_pos, h) ==
    CASE v_pos = "Top" -> 0
      [] v_pos = "Center" -> -(h \div 2)
      [] v_pos = "Bottom" -> -h

ClaimedR(transform, dx, dy) ==
    CASE transform = "None" -> <<dx, dy>>
      [] transform = "Rotate90" -> <<-dy, dx>>
      [] transform = "Rotate180" -> <<-dx, -dy>>
      [] transform = "Rotate270" -> <<dy, -dx>>

\* R(dx, dy) of the successful draw_text
ClaimedOffset ==
    ClaimedR(TextStyleDrawn.transform,
             ClaimedDx(TextStyleDrawn.anchor.h_pos, ExtentMeasured[1]),
             ClaimedDy(TextStyleDrawn.anchor.v_pos, ExtentMeasured[2]))

DrawnAtClaimedOrigin ==
    /\ SumIs(TargetPoint[1], ClaimedOffset[1], OriginDrawn[1])
    /\ SumIs(TargetPoint[2], ClaimedOffset[2], OriginDrawn[2])

ClaimedOriginFits ==
    /\ ~AddOverflows(TargetPoint[1], ClaimedOffset[1])
    /\ ~AddOverflows(TargetPoint[2], ClaimedOffset[2])

\* C2 as stated: for every anchor, rotation, measured size and point p, a
\* successful draw_text draws at p + R(dx, dy), the alignment offset (dx, dy)
\* computed first and rotated second.
C2_DrawnAtOffsetEverywhere == SuccessfulDrawText => DrawnAtClaimedOrigin

\* C2 as amended: the same, for every p for which p + R(dx, dy) is a pair of
\* i32 coordinates.
C2_DrawnAtOffset == SuccessfulDrawText /\ ClaimedOriginFits => DrawnAtClaimedOrigin

C2_Witness ==
    /\ SuccessfulDrawText
    /\ ClaimedOriginFits
    /\ build = "release"
    /\ TextStyleDrawn.transform = "Rotate270"
    /\ TextStyleDrawn.anchor = [h_pos |-> "Center", v_pos |-> "Bottom"]
    /\ ExtentMeasured = <<MaxExtent, MaxExtent - 1>>
    /\ TargetPoint = <<I32Max, I32Min>>

----------------------------------------------------------------------------
(* C3: which native text entry point is used *)

ClaimedAngle(transform) ==
    CASE transform = "Rotate90" -> -90
      [] transform = "Rotate180" -> -180
      [] transform = "Rotate270" -> -270

\* C3: a successful draw_text issues exactly one native text draw: the plain
\* draw_text when there is no rotation, draw_rotated_text with the negated
\* angle otherwise.
C3_OneTextDraw ==
    SuccessfulDrawText =>
        /\ Len(TextDraws) = 1
        /\ IF TextStyleDrawn.transform = "None"
           THEN TextDraws[1][1] = "draw_text"
           ELSE /\ TextDraws[1][1] = "draw_rotated_text"
                /\ TextDraws[1][5] = ClaimedAngle(TextStyleDrawn.transform)

C3_Witness ==
    /\ SuccessfulDrawText
    /\ TextStyleDrawn.transform = "Rotate180"
    /\ Len(CallsNamed({"draw_rotated_text"})) = 1
    /\ Len(CallsNamed({"draw_text"})) = 0

----------------------------------------------------------------------------
(* C4: the context WxBackend::new leaves *)

\* position of the first call of that name in the log; 0 when there is none
FirstCall(name) ==
    IF \E i \in 1 .. Len(calls) : calls[i][1] = name
    THEN CHOOSE i \in 1 .. Len(calls) :
            calls[i][1] = name /\ \A j \in 1 .. (i - 1) : calls[j][1] # name
    ELSE 0

\* C4: whatever the context held before, after WxBackend::new its background
\* is white, its background mode Transparent, and its surface cleared to white,
\* the clear coming after the background colour is set.
C4_NewInitializes ==
    op.name = "new" =>
        /\ dc.bg = Colour(255, 255, 255, 255)
        /\ dc.bgMode = "Transparent"
        /\ dc.surface = [cleared |-> TRUE, fill |-> Colour(255, 255, 255, 255)]
        /\ 0 < FirstCall("set_background")
        /\ FirstCall("set_background") < FirstCall("clear")

\* a backend built on a context that an earlier session left with a grey
\* background (the text background taken from it) and a wide pen
C4_Witness ==
    /\ op.name = "new"
    /\ dc.textBg = Grey
    /\ dc.pen.width = 2

----------------------------------------------------------------------------
(* C5: convert_color *)

\* round(alpha * 255) for alpha = a / AlphaDen, halves rounded up
RoundedAlpha(a) == (2 * a * 255 + AlphaDen) \div (2 * AlphaDen)

\* C5: the native colour convert_color returns (here the pen colour draw_pixel
\* sets from its colour argument) has r, g, b unchanged and the alpha channel
\* round(alpha * 255).
C5_AlphaRounded ==
    op.name = "draw_pixel" =>
        LET color == op.args[2]
        IN  calls[1][2] =
                Colour(color.rgb[1], color.rgb[2], color.rgb[3], RoundedAlpha(color.alpha))

----------------------------------------------------------------------------
(* C6: the point size of the native font *)

FontBuilds == CallsNamed({"font_build"})

\* round(size * 0.6), halves rounded up
RoundedPointSize(size) == (2 * size * 6 + 10) \div 20

\* C6 as stated: the font set_font_style builds has point size
\* round(style.size * 0.6).
C6_PointSizeRounded ==
    op.name = "estimate_text_size" =>
        FontBuilds[1][2].point_size = RoundedPointSize(op.args[2].size)

\* C6 as amended: the font set_font_style builds has point size style.size * 0.6
\* truncated toward zero.
C6_PointSizeTruncated ==
    op.name = "estimate_text_size" =>
        /\ Len(FontBuilds) = 1
        /\ \E n \in 0 .. MaxSize :
              /\ 10 * n <= 6 * op.args[2].size
              /\ 6 * op.args[2].size < 10 * (n + 1)
              /\ FontBuilds[1][2].point_size = n

\* size 16: 9.6 is truncated to 9, where rounding gives 10
C6_Witness ==
    /\ op.name = "estimate_text_size"
    /\ op.args[2].size = 16
    /\ result.tag = "Ok"
    /\ dc.font.point_size = 9

----------------------------------------------------------------------------
(* C7: font construction failure *)

FontBuildFailed == \E i \in 1 .. Len(calls) : calls[i][1] = "font_build" /\ ~calls[i][3]

\* C7: when the native font cannot be built, estimate_text_size and draw_text
\* return the font error carrying CreateFont (they do not panic), make no
\* text-extent query and issue no native text draw.
C7_FontErrorPropagates ==
    op.name \in {"draw_text", "estimate_text_size"} /\ FontBuildFailed =>
        /\ result.tag = "Err"
        /\ result.kind = "FontError"
        /\ result.inner = "CreateFont"
        /\ Len(CallsNamed({"get_text_extent"})) = 0
        /\ Len(TextDraws) = 0

C7_Witness ==
    /\ op.name = "draw_text"
    /\ FontBuildFailed
    /\ result.tag = "Err"
    /\ op.args[2].transform = "Rotate90"

----------------------------------------------------------------------------
(* C8: blit_bitmap *)

\* whether wx::Bitmap::from_rgba made a bitmap of the buffer
BufferInterpreted == CallsNamed({"bitmap_from_rgba"})[1][5]

BlitOutcome ==
    op.name = "blit_bitmap" =>
        IF BufferInterpreted
        THEN /\ result.tag = "Ok"
             /\ Len(CallsNamed({"draw_bitmap"})) = 1
             /\ CallsNamed({"draw_bitmap"})[1][3] = op.args[1][1]
             /\ CallsNamed({"draw_bitmap"})[1][4] = op.args[1][2]
             /\ CallsNamed({"draw_bitmap"})[1][5] = FALSE
        ELSE /\ result.tag = "Err"
             /\ result.inner = "CreateBitmap"
             /\ Len(CallsNamed({"draw_bitmap"})) = 0

FailedBlitLeavesContext ==
    op'.name = "blit_bitmap" /\ result'.tag = "Err" => dc' = dc

\* C8: blit_bitmap with a buffer that is not a bitmap of the given size returns
\* an error carrying CreateBitmap, issues no draw_bitmap and leaves the context
\* as it was; with a buffer that is one, it issues exactly one draw_bitmap at the
\* given position, transparency off, and returns success.
C8_BlitBitmap == [](BlitOutcome) /\ [][FailedBlitLeavesContext]_vars

\* a mismatched buffer refused on a context that earlier methods have used
C8_Witness ==
    /\ op.name = "blit_bitmap"
    /\ op.args[2] = <<2, 1>>
    /\ op.args[3] = 4
    /\ result.inner = "CreateBitmap"
    /\ dc.surface.cleared = FALSE
    /\ dc.pen.width = 2

----------------------------------------------------------------------------
(* C9: ensure_prepared and present *)

NoOpStep ==
    op'.name \in {"ensure_prepared", "present"} =>
        /\ result' = Ok
        /\ calls' = <<>>
        /\ dc' = dc

\* C9: ensure_prepared and present, wherever they are called among the other
\* methods, return success, issue no native call and leave the context as it was.
C9_NoOps == [][NoOpStep]_vars

\* present after other methods have drawn and set a wide pen
C9_Witness ==
    /\ op.name = "present"
    /\ result = Ok
    /\ calls = <<>>
    /\ dc.surface.cleared = FALSE
    /\ dc.pen.width = 2
    /\ dc.bg = Grey

----------------------------------------------------------------------------
(* C10: draw_rect *)

RectOrdered ==
    /\ op.args[1][1] <= op.args[2][1]
    /\ op.args[1][2] <= op.args[2][2]

\* x2 - x1 and y2 - y1 are at most 2^31 - 1
RectExtentFits ==
    /\ ~SubOverflows(op.args[2][1], op.args[1][1])
    /\ ~SubOverflows(op.args[2][2], op.args[1][2])

RectDrawnExactly ==
    /\ result = Ok
    /\ Len(CallsNamed({"draw_rectangle"})) = 1
    /\ LET c == CallsNamed({"draw_rectangle"})[1]
       IN  /\ c[2] = op.args[1][1]
           /\ c[3] = op.args[1][2]
           /\ DiffIs(op.args[2][1], op.args[1][1], c[4])
           /\ DiffIs(op.args[2][2], op.args[1][2], c[5])

\* C10 as stated: for all i32 corners with x1 <= x2 and y1 <= y2, draw_rect
\* issues exactly one draw_rectangle with origin (x1, y1), width exactly
\* x2 - x1 and height exactly y2 - y1, and returns success.
C10_RectExactEverywhere == op.name = "draw_rect" /\ RectOrdered => RectDrawnExactly

\* C10 as amended: the same, for the ordered corners whose differences x2 - x1
\* and y2 - y1 are at most 2^31 - 1.
C10_RectExact ==
    op.name = "draw_rect" /\ RectOrdered /\ RectExtentFits => RectDrawnExactly

\* the widest rectangle whose extent still fits
C10_Witness ==
    /\ op.name = "draw_rect"
    /\ op.args[1] = <<I32Min, I32Min>>
    /\ op.args[2] = <<-1, -1>>
    /\ result = Ok
    /\ CallsNamed({"draw_rectangle"})[1][4] = I32Max

----------------------------------------------------------------------------
(* C11: the pen, brush and font in effect at each native draw *)

PrimitiveMethods ==
    {"draw_pixel", "draw_line", "draw_path", "draw_circle", "draw_rect", "fill_polygon"}

PrimitiveDraws ==
    {"draw_point", "draw_line", "draw_lines", "draw_circle", "draw_rectangle",
     "draw_polygon"}

\* the style argument of a styled primitive method
StyleOf(o) ==
    CASE o.name \in {"draw_path", "fill_polygon"} -> o.args[2]
      [] o.name \in {"draw_line", "draw_circle", "draw_rect"} -> o.args[3]

\* the colour a primitive method is asked to draw in
ColorOf(o) == IF o.name = "draw_pixel" THEN o.args[2] ELSE StyleOf(o).color

\* the last call of that name before position i of the log; 0 when there is none
LastBefore(log, i, name) ==
    LET S == {j \in 1 .. (i - 1) : log[j][1] = name}
    IN  IF S = {} THEN 0 ELSE CHOOSE j \in S : \A k \in S : k <= j

\* what the context holds when call i of the log is issued, d being the context
\* at the method's entry
PenInEffect(d, log, i) ==
    LET j == LastBefore(log, i, "set_pen")
    IN  IF j = 0 THEN d.pen
        ELSE [colour |-> log[j][2], width |-> log[j][3], style |-> log[j][4]]

BrushInEffect(d, log, i) ==
    LET j == LastBefore(log, i, "set_brush")
    IN  IF j = 0 THEN d.brush ELSE [colour |-> log[j][2], style |-> log[j][3]]

FontInEffect(d, log, i) ==
    LET j == LastBefore(log, i, "set_font")
    IN  IF j = 0 THEN d.font ELSE log[j][2]

TextFgInEffect(d, log, i) ==
    LET j == LastBefore(log, i, "set_text_foreground")
    IN  IF j = 0 THEN d.textFg ELSE log[j][2]

\* n is the stroke width the method was given (1 for draw_pixel)
WidthIsStroke(o, n) ==
    IF o.name = "draw_pixel" THEN n = 1
    ELSE StyleOf(o).stroke_width.hi = 0 /\ n = StyleOf(o).stroke_width.lo

\* n is the stroke width the method was given when that is at most 2^31 - 1, and
\* the stroke width less 2^32 when it is more
WidthIsStrokeAsI32(o, n) ==
    IF o.name = "draw_pixel" THEN n = 1
    ELSE LET w == StyleOf(o).stroke_width
         IN  IF w.hi = 0 THEN n = w.lo ELSE n = (w.lo - I32Max) - 1

\* the font set_font_style derives from a text style
FontDerivedFrom(style) == FontParams(style)

\* in the step that runs a draw method, every native draw is issued under the
\* pen (and brush colour, font, text foreground) of that method's own style
OwnStyleInEffect(WidthIs(_, _)) ==
    /\ op'.name \in PrimitiveMethods =>
          \A i \in 1 .. Len(calls') :
              calls'[i][1] \in PrimitiveDraws =>
                  /\ PenInEffect(dc, calls', i).colour = convert_color(ColorOf(op'))
                  /\ PenInEffect(dc, calls', i).style = "Solid"
                  /\ WidthIs(op', PenInEffect(dc, calls', i).width)
                  /\ op'.name \in {"draw_circle", "draw_rect", "fill_polygon"} =>
                        BrushInEffect(dc, calls', i).colour = convert_color(ColorOf(op'))
    /\ op'.name = "draw_text" =>
          \A i \in 1 .. Len(calls') :
              calls'[i][1] \in {"draw_text", "draw_rotated_text"} =>
                  /\ FontInEffect(dc, calls', i) = FontDerivedFrom(op'.args[2])
                  /\ TextFgInEffect(dc, calls', i) = convert_color(op'.args[2].color)

\* C11 as stated: after any sequence of draw calls with differing styles, every
\* native primitive draw is issued while the pen is the solid pen of that call's
\* style (converted colour, the stroke width as an integer, 1 for draw_pixel),
\* and every native text draw while the font and text foreground are those of
\* that call's text style: nothing left by an earlier call is in effect.
C11_OwnStyleExactWidth == [][OwnStyleInEffect(WidthIsStroke)]_vars

\* C11 as amended: the same, the pen width being the u32 stroke width cast to
\* i32: the stroke width itself up to 2^31 - 1, the stroke width less 2^32 above.
C11_OwnStyle == [][OwnStyleInEffect(WidthIsStrokeAsI32)]_vars

\* a thin black line drawn on a context whose brush and font an earlier red
\* circle and an earlier text left behind
C11_Witness ==
    /\ op.name = "draw_line"
    /\ op.args[3] = [color |-> BLACK, stroke_width |-> U32(0, 1)]
    /\ Len(CallsNamed({"draw_line"})) = 1
    /\ dc.pen = [colour |-> Colour(0, 0, 0, 255), width |-> 1, style |-> "Solid"]
    /\ dc.brush.colour = Colour(255, 0, 0, 127)
    /\ dc.font # DefaultFont

----------------------------------------------------------------------------
(* C12: the text colours estimate_text_size and draw_text set *)

TextMethods == {"draw_text", "estimate_text_size"}

\* a text method sets the text background to the background the context holds
\* when it is called, and the text foreground to the style's colour
TextColoursStep ==
    op'.name \in TextMethods =>
        /\ Len(SelectSeq(calls', LAMBDA c : c[1] = "set_text_background")) = 1
        /\ Len(SelectSeq(calls', LAMBDA c : c[1] = "set_text_foreground")) = 1
        /\ \A i \in 1 .. Len(calls') :
              /\ calls'[i][1] = "set_text_background" => calls'[i][2] = dc.bg
              /\ calls'[i][1] = "set_text_foreground" =>
                    calls'[i][2] = convert_color(op'.args[2].color)
        /\ dc'.textBg = dc.bg
        /\ dc'.textFg = convert_color(op'.args[2].color)

\* the background the context holds is the colour of the last
\* set_background_color, white after construction
BackgroundStep ==
    dc'.bg = CASE op'.name = "set_background_color" -> op'.args[1]
               [] op'.name = "new" -> Colour(255, 255, 255, 255)
               [] OTHER -> dc.bg

\* C12: whenever estimate_text_size or draw_text is called, the text background
\* is set to the background colour the context holds at that moment, which is
\* the colour of the last set_background_color (white if none since
\* construction), and the text foreground to the style's colour.
C12_TextColours == [][TextColoursStep /\ BackgroundStep]_vars

\* red text drawn after the background was set to grey
C12_Witness ==
    /\ op.name = "draw_text"
    /\ result = Ok
    /\ dc.bg = Grey
    /\ dc.textBg = Grey
    /\ dc.textFg = Colour(255, 0, 0, 127)

----------------------------------------------------------------------------
(* C13: the native font built from a text style *)

\* the face name the builder is given when none is asked for
NoFaceName == ""

ClaimedFamily(family) ==
    CASE family.kind = "Monospace" -> "Teletype"
      [] family.kind = "SansSerif" -> "Swiss"
      [] family.kind = "Serif" -> "Roman"
      [] family.kind = "Name" -> "Default"

ClaimedFaceName(family) ==
    IF family.kind = "Name" THEN family.name ELSE NoFaceName

ClaimedSlant(fstyle) ==
    CASE fstyle = "Bold" -> "Normal"
      [] fstyle = "Italic" -> "Italic"
      [] fstyle = "Normal" -> "Normal"
      [] fstyle = "Oblique" -> "Slant"

ClaimedWeight(fstyle) == IF fstyle = "Bold" THEN "Bold" ELSE "Normal"

\* C13: set_font_style builds the native font with family Teletype, Swiss or
\* Roman and no explicit face name for Monospace, SansSerif or Serif, the
\* Default family with face name x for Name(x), the slant and weight of the
\* font style, and underline disabled.
C13_FontBuilt ==
    op.name = "estimate_text_size" =>
        /\ Len(FontBuilds) = 1
        /\ FontBuilds[1][2].family = ClaimedFamily(op.args[2].family)
        /\ FontBuilds[1][2].face_name = ClaimedFaceName(op.args[2].family)
        /\ FontBuilds[1][2].style = ClaimedSlant(op.args[2].style)
        /\ FontBuilds[1][2].weight = ClaimedWeight(op.args[2].style)
        /\ FontBuilds[1][2].underlined = FALSE

----------------------------------------------------------------------------
(* C14: get_size *)

\* the u32 u has the value of the natural number n
U32Is(u, n) == u.hi = 0 /\ u.lo = n

\* C14: get_size queries the native surface on every call and returns the
\* dimensions the surface has at that moment, as unsigned extents: after the
\* surface is resized it returns the new size, never a remembered one.
C14_SizeQueried ==
    op.name = "get_size" =>
        /\ Len(CallsNamed({"get_size"})) = 1
        /\ result.tag = "Value"
        /\ U32Is(result.value[1], dc.size[1])
        /\ U32Is(result.value[2], dc.size[2])

\* get_size on a surface that has been resized since the backend was built
C14_Witness ==
    /\ op.name = "get_size"
    /\ dc.size = <<1024, 768>>
    /\ result.value = <<U32(0, 1024), U32(0, 768)>>

----------------------------------------------------------------------------
(* C15: the brush of the filled shapes *)

\* native draw i of the log is issued after a set_brush of this method, under
\* a brush of that style and of the method's colour
BrushSetFor(i, style) ==
    /\ LastBefore(calls', i, "set_brush") > 0
    /\ BrushInEffect(dc, calls', i) =
          [colour |-> convert_color(StyleOf(op').color), style |-> style]

BrushStep ==
    /\ op'.name \in {"draw_circle", "draw_rect"} =>
          \A i \in 1 .. Len(calls') :
              calls'[i][1] \in {"draw_circle", "draw_rectangle"} =>
                  BrushSetFor(i, IF op'.args[4] THEN "Solid" ELSE "Transparent")
    /\ op'.name = "fill_polygon" =>
          /\ Len(SelectSeq(calls', LAMBDA c : c[1] = "draw_polygon")) = 1
          /\ \A i \in 1 .. Len(calls') :
                calls'[i][1] = "draw_polygon" =>
                    /\ BrushSetFor(i, "Solid")
                    /\ calls'[i][5] = "OddEven"

\* C15: draw_circle and draw_rect set the brush before drawing, solid in the
\* style's colour when fill is true and transparent when it is false, whatever
\* brush an earlier shape left; fill_polygon always sets a solid brush of the
\* style's colour and draws with the odd-even fill rule.
C15_Brush == [][BrushStep]_vars

\* an unfilled red rectangle, drawn and left with a transparent brush
C15_Witness ==
    /\ op.name = "draw_rect"
    /\ op.args[3].color = RED_HALF
    /\ op.args[4] = FALSE
    /\ result = Ok
    /\ Len(CallsNamed({"draw_rectangle"})) = 1
    /\ dc.brush = [colour |-> Colour(255, 0, 0, 127), style |-> "Transparent"]

----------------------------------------------------------------------------
(* C16: the error outcomes of the backend *)

\* an error is a font failure of a text method or a bitmap failure of blit_bitmap
ErrorIsFontOrBitmap ==
    result.tag = "Err" =>
        \/ op.name \in TextMethods /\ result.inner = "CreateFont"
        \/ op.name = "blit_bitmap" /\ result.inner = "CreateBitmap"

\* draw_rect in a debug build, given corners whose difference overflows i32
RectOverflowChecked ==
    op.name = "draw_rect" /\ build = "debug" /\ ~RectExtentFits

\* C16 as stated: the only error outcomes are the font failure of draw_text and
\* estimate_text_size and the bitmap failure of blit_bitmap; draw_pixel,
\* draw_line, draw_path, draw_circle, draw_rect and fill_polygon return success
\* for every input, an empty path or vertex list included, in every reachable
\* context state.
C16_PrimitivesSucceedEverywhere ==
    /\ ErrorIsFontOrBitmap
    /\ op.name \in PrimitiveMethods => result = Ok

\* C16 as amended: the same, except that draw_rect in a build with overflow
\* checks does not return (it panics) when x2 - x1 or y2 - y1 overflows i32.
C16_PrimitivesSucceed ==
    /\ ErrorIsFontOrBitmap
    /\ op.name \in PrimitiveMethods =>
          IF RectOverflowChecked THEN result = Panic ELSE result = Ok

\* an empty path drawn on a context that text and a grey background have used
C16_Witness ==
    /\ op.name = "draw_path"
    /\ op.args[1] = <<>>
    /\ result = Ok
    /\ Len(CallsNamed({"draw_lines"})) = 1
    /\ dc.textBg = Grey
    /\ dc.font # DefaultFont

----------------------------------------------------------------------------
(* C17: the order of the native calls within draw_text *)

\* call i of the log comes after a call of that name
Preceded(i, name) == \E j \in 1 .. (i - 1) : calls[j][1] = name

\* the style's font and text colours are on the context when call i is issued
StyleAppliedBefore(i, style) ==
    /\ Preceded(i, "set_text_background")
    /\ Preceded(i, "set_text_foreground")
    /\ Preceded(i, "set_font")
    /\ \A j \in 1 .. (i - 1) :
          /\ calls[j][1] = "set_font" => calls[j][2] = FontDerivedFrom(style)
          /\ calls[j][1] = "set_text_foreground" =>
                calls[j][2] = convert_color(style.color)

\* C17: within one draw_text call the style's font and text colours are set
\* first, the text extent is queried next and the text is drawn last; the
\* extent that places the text is measured with the font of the style being
\* drawn, never with the font an earlier call left.
C17_SetMeasureDraw ==
    op.name = "draw_text" =>
        /\ \A i \in 1 .. Len(calls) :
              /\ calls[i][1] = "get_text_extent" =>
                    /\ StyleAppliedBefore(i, op.args[2])
                    /\ calls[i][4] = FontDerivedFrom(op.args[2])
              /\ calls[i][1] \in {"draw_text", "draw_rotated_text"} =>
                    Preceded(i, "get_text_extent")
        /\ result.tag = "Ok" =>
              /\ Len(CallsNamed({"get_text_extent"})) = 1
              /\ Len(TextDraws) = 1
              /\ calls[Len(calls)][1] \in {"draw_text", "draw_rotated_text"}

\* a rotated text measured and then drawn at the edge of the i32 range
C17_Witness ==
    /\ SuccessfulDrawText
    /\ TextStyleDrawn.transform = "Rotate90"
    /\ TargetPoint = <<I32Max, I32Min>>
    /\ ExtentMeasured = <<MaxExtent - 1, MaxExtent>>
    /\ FirstCall("set_font") < FirstCall("get_text_extent")
    /\ FirstCall("get_text_extent") < FirstCall("draw_rotated_text")

----------------------------------------------------------------------------
(* C18: what a failed font construction leaves *)

FontFailureStep ==
    op'.name \in TextMethods /\ result'.tag = "Err" =>
        /\ dc'.textFg = convert_color(op'.args[2].color)
        /\ dc'.textBg = dc.bg
        /\ dc'.font = dc.font
        /\ Len(SelectSeq(calls', LAMBDA c : c[1] = "font_build")) = 1
        /\ Len(SelectSeq(calls', LAMBDA c : c[1] = "set_font")) = 0

\* C18: when font construction fails in estimate_text_size or draw_text, the
\* text foreground and text background have already been changed to the style's
\* colour and the current background colour, the context's font is the one it
\* had before the call, and one font construction was attempted.
C18_FailureLeavesFont == [][FontFailureStep]_vars

\* a red text that failed on a grey background, the font of an earlier black
\* monospace text still on the context
C18_Witness ==
    /\ op.name = "draw_text"
    /\ result = Err("FontError", "CreateFont")
    /\ op.args[2].family.kind = "Name"
    /\ dc.textFg = Colour(255, 0, 0, 127)
    /\ dc.textBg = Grey
    /\ dc.font.family = "Teletype"

----------------------------------------------------------------------------
(* C19: the kind of the plotting library's error that carries each failure *)

\* C19: the font-error kind is returned only by draw_text and
\* estimate_text_size; a bitmap-construction failure of blit_bitmap is returned
\* in the generic drawing-error kind, never as a font error.
C19_BitmapErrorKind ==
    result.tag = "Err" =>
        /\ result.kind = "FontError" => op.name \in TextMethods
        /\ op.name = "blit_bitmap" => result.kind = "DrawingError"

====
